---- MODULE Spec2Model ----
(***************************************************************************)
(* State-machine model of SpectrometerLiveView                             *)
(* (src/sb_live_view/live_view.py): the session state of the live view,    *)
(* the key-press handlers behind on_key_press, the per-frame update        *)
(* callback of the animation and the SIGINT handler.                       *)
(*                                                                         *)
(* Numbers.  Array elements are exact values: a rational n/d (k = "q",     *)
(* d > 0, lowest terms), +infinity (k = "q", n = 1, d = 0) or a negative   *)
(* decimal logarithm -log10(n/d) of a positive rational other than 1       *)
(* (k = "nlog").  The y limits of the plot are counted in tenths.          *)
(* Floating-point rounding is not modelled.                                *)
(*                                                                         *)
(* Not modelled: the files written by save and save_figure and the text    *)
(* printed on the console; both are outputs that no handler reads back.    *)
(***************************************************************************)
EXTENDS Integers, Sequences, FiniteSets, TLC

\* ------------------------------------------------------------------------
\* Bounds of the model and input domains
\* ------------------------------------------------------------------------

\* Update cycles that read the spectrometer (the animation's frame counter).
MaxFrames == 2

\* Steps of the integration window above its minimum that are explored.
MaxIntegSteps == 1

\* Steps of the y range above the mode's default that are explored.
MaxYSteps == 0

\* The wavelengths the spectrometer reports (fixed for the session).
Wavelengths == <<400, 500>>

\* Raw counts a pixel of the spectrometer can report.
IntensityValues == {1, 3}

\* ------------------------------------------------------------------------
\* Program constants
\* ------------------------------------------------------------------------

INTENSITY == "INTENSITY"
TRANSMITTANCE == "TRANSMITTANCE"
ABSORBANCE == "ABSORBANCE"

Mode == {INTENSITY, TRANSMITTANCE, ABSORBANCE}

\* YRANGE_PARAM, in tenths.
YRANGE_PARAM ==
    [m \in Mode |->
        IF m = INTENSITY
        THEN [default |-> 40000, step |-> 5000, min |-> 5000]
        ELSE [default |-> 11, step |-> 1, min |-> 1]]

INTEG_TIME_PARAM == [default |-> 4000, step |-> 1000, min |-> 3000]

MODE_TO_YLABEL ==
    [m \in Mode |->
        CASE m = INTENSITY -> "Intensity"
          [] m = TRANSMITTANCE -> "Transmittance"
          [] m = ABSORBANCE -> "Absorbance"]

\* str.lower() of the three y labels.
Lower(s) ==
    CASE s = "Intensity" -> "intensity"
      [] s = "Transmittance" -> "transmittance"
      [] s = "Absorbance" -> "absorbance"

INTENSITY_THRESHOLD == 1

\* The keys of event_key_to_callback.
CallbackKeys ==
    {"s", "f", "b", "c", "up", "down", "i", "t", "a", "p", ".", ",", "h"}

\* The keys of event_key_to_doc.
DocKeys ==
    {"s", "f", "b", "c", "up", "down", "i", "t", "a", "p", "<", ">", "h", "q"}

\* Key names the figure canvas can deliver.
EventKeys == CallbackKeys \cup DocKeys \cup {"x"}

\* The key names for which event_key_to_callback[event.key] raises KeyError.
UnboundKeys == EventKeys \ CallbackKeys

\* ------------------------------------------------------------------------
\* Exact arithmetic on array elements
\* ------------------------------------------------------------------------

Max(a, b) == IF a >= b THEN a ELSE b

RECURSIVE Gcd(_, _)
Gcd(a, b) == IF b = 0 THEN a ELSE Gcd(b, a % b)

\* The rational n/d (n >= 0, d > 0) in lowest terms.
Q(n, d) == [k |-> "q", n |-> n \div Gcd(n, d), d |-> d \div Gcd(n, d)]

Int2Val(i) == [k |-> "q", n |-> i, d |-> 1]

Inf == [k |-> "q", n |-> 1, d |-> 0]

\* a <= b for two values of kind "q" (infinity included).
RatLE(a, b) == a.n * b.d <= b.n * a.d

\* The q with v = -log10(q), for the values -log10 produces.
LogArg(v) ==
    CASE v.k = "nlog" -> [k |-> "q", n |-> v.n, d |-> v.d]
      [] v.k = "q" /\ v.d = 0 -> Int2Val(0)
      [] v.k = "q" /\ v.n = 0 -> Int2Val(1)

\* a <= b as numpy compares array elements: two rationals directly, two
\* absorbances through their arguments (-log10 is decreasing).
LE(a, b) ==
    IF a.k = "q" /\ b.k = "q"
    THEN RatLE(a, b)
    ELSE RatLE(LogArg(b), LogArg(a))

\* v > t for an integer t >= 0 (the comparison of line 314).  For an
\* absorbance, -log10(q) > t iff q * 10^t < 1.
RECURSIVE Pow10(_)
Pow10(t) == IF t = 0 THEN 1 ELSE 10 * Pow10(t - 1)

\* The comparison read as "at least" instead of "above".
GreaterOrEqual(v, t) ==
    IF v.k = "q"
    THEN v.n >= t * v.d
    ELSE v.n * Pow10(t) <= v.d

GreaterThan(v, t) ==
    IF v.k = "q"
    THEN v.n > t * v.d
    ELSE v.n * Pow10(t) < v.d

\* i / b for a raw count i and a baseline element b > threshold (line 315).
\* A finite absorbance above 1 as divisor needs a count below a tenth of its
\* baseline and has no exact representation here: no case covers it.
Divide(i, b) ==
    CASE i.k = "q" /\ b.k = "q" /\ b.d = 0 -> Int2Val(0)
      [] i.k = "q" /\ b.k = "q" /\ b.d > 0 /\ b.n > 0 ->
            Q(i.n * b.d, i.d * b.n)

\* -numpy.log10(t) for a transmittance t >= 0 (line 316).
NegLog10(t) ==
    CASE t.n = 0 -> Inf
      [] t.n = t.d -> Int2Val(0)
      [] OTHER -> [k |-> "nlog", n |-> t.n, d |-> t.d]

\* 1.1 * v (line 349).
Times1_1(v) ==
    CASE v.k = "q" /\ v.d = 0 -> Inf
      [] v.k = "q" /\ v.d > 0 -> Q(11 * v.n, 10 * v.d)
      [] v.k = "nlog" -> [k |-> "1.1nlog", n |-> v.n, d |-> v.d]

\* ------------------------------------------------------------------------
\* numpy array operations used by update and find_peak
\* ------------------------------------------------------------------------

\* argmax that returns the last index of a largest element.
ArgMaxLast(y) ==
    CHOOSE i \in 1..Len(y) :
        /\ \A j \in 1..Len(y) : LE(y[j], y[i])
        /\ \A j \in (i + 1)..Len(y) : ~LE(y[i], y[j])

\* y.argmax(): the first index of a largest element (y not empty).
ArgMax(y) ==
    CHOOSE i \in 1..Len(y) :
        /\ \A j \in 1..Len(y) : LE(y[j], y[i])
        /\ \A j \in 1..(i - 1) : ~LE(y[i], y[j])

\* y.argmin(): the first index of a smallest element (y not empty).
ArgMin(y) ==
    CHOOSE i \in 1..Len(y) :
        /\ \A j \in 1..Len(y) : LE(y[i], y[j])
        /\ \A j \in 1..(i - 1) : ~LE(y[j], y[i])

\* a[mask] for a boolean mask of the length of a.
RECURSIVE BoolIndex(_, _)
BoolIndex(a, mask) ==
    IF Len(a) = 0
    THEN <<>>
    ELSE IF Head(mask)
         THEN <<Head(a)>> \o BoolIndex(Tail(a), Tail(mask))
         ELSE BoolIndex(Tail(a), Tail(mask))

\* blanking_intensities > INTENSITY_THRESHOLD, elementwise.
RECURSIVE MaskOf(_)
MaskOf(b) ==
    IF Len(b) = 0
    THEN <<>>
    ELSE <<GreaterThan(Head(b), INTENSITY_THRESHOLD)>> \o MaskOf(Tail(b))

\* intensities[mask] / blanking_intensities[mask], elementwise.
RECURSIVE ArrayDivide(_, _)
ArrayDivide(num, den) ==
    IF Len(num) = 0
    THEN <<>>
    ELSE <<Divide(Head(num), Head(den))>> \o ArrayDivide(Tail(num), Tail(den))

Transmittance(intensities, b, mask) ==
    ArrayDivide(BoolIndex(intensities, mask), BoolIndex(b, mask))

\* -np.log10(transmittance), elementwise.
RECURSIVE Absorbance(_)
Absorbance(t) ==
    IF Len(t) = 0
    THEN <<>>
    ELSE <<NegLog10(Head(t))>> \o Absorbance(Tail(t))

\* find_peak(x, y, peak_type) for a non-empty y.
\* find_peak that takes the maximum whatever peak_type says.
find_peak_always_max(x, y, peak_type) ==
    LET ind == ArgMax(y)
    IN  <<x[ind], y[ind]>>

find_peak(x, y, peak_type) ==
    LET ind == IF peak_type = "max" THEN ArgMax(y) ELSE ArgMin(y)
    IN  <<x[ind], y[ind]>>

\* ------------------------------------------------------------------------
\* State
\* ------------------------------------------------------------------------

VARIABLES
    integ_window,          \* self.integ_window
    spectrometer_integ,    \* value last passed to integration_time_micros
    blanking_intensities,  \* self.blanking_intensities: None or an array
    current_mode,          \* self.current_mode
    peakfinder_enabled,    \* self.peakfinder_enabled
    data,                  \* self.data
    ylim,                  \* <<bottom, top>> of self.ax, in tenths
    ylabel,                \* y label of self.ax
    liveview_line,         \* (x, y) data of self.liveview_line
    blanking_line,         \* (x, y) data of self.blanking_line
    peakfind_line,         \* (x, y) data of self.peakfind_line
    sigint,                \* self.sigint
    status,                \* "running" or "exited"
    exit_code,             \* <<>> while running, <<code>> once exited
    frame,                 \* frames the animation has handed to update
    uncaught               \* exception last raised out of a callback

vars ==
    <<integ_window, spectrometer_integ, blanking_intensities, current_mode,
      peakfinder_enabled, data, ylim, ylabel, liveview_line, blanking_line,
      peakfind_line, sigint, status, exit_code, frame, uncaught>>

\* Everything update() may write, but not the interrupt flag.
session ==
    <<integ_window, spectrometer_integ, blanking_intensities, current_mode,
      peakfinder_enabled, data, ylim, ylabel, liveview_line, blanking_line,
      peakfind_line>>

None == [is_none |-> TRUE, val |-> <<>>]

Array(a) == [is_none |-> FALSE, val |-> a]

EmptyDict == [key \in {} |-> <<>>]

EmptyLine == [x |-> <<>>, y |-> <<>>]

N == Len(Wavelengths)

\* The arrays spectrometer.intensities() can return.
Readings == [1..N -> {Int2Val(i) : i \in IntensityValues}]

Init ==
    /\ integ_window = INTEG_TIME_PARAM.default
    /\ spectrometer_integ = INTEG_TIME_PARAM.default
    /\ blanking_intensities = None
    /\ current_mode = INTENSITY
    /\ peakfinder_enabled = FALSE
    /\ data = EmptyDict
    /\ ylim = <<0, YRANGE_PARAM[INTENSITY].default>>
    /\ ylabel = MODE_TO_YLABEL[INTENSITY]
    /\ liveview_line = EmptyLine
    /\ blanking_line = EmptyLine
    /\ peakfind_line = EmptyLine
    /\ sigint = FALSE
    /\ status = "running"
    /\ exit_code = <<>>
    /\ frame = 0
    /\ uncaught = "none"

\* ------------------------------------------------------------------------
\* Key-press handlers
\* ------------------------------------------------------------------------

\* save(): pickles self.data to data/data.pkl.
save == UNCHANGED vars

\* save_figure(): writes the figure to data/<mode>[_w_peak].png.
save_figure == UNCHANGED vars

\* blank() without its test of the mode.
blank_any_mode ==
    /\ blanking_intensities' = Array(liveview_line.y)
    /\ UNCHANGED <<integ_window, spectrometer_integ, current_mode,
                   peakfinder_enabled, data, ylim, ylabel, liveview_line,
                   blanking_line, peakfind_line, sigint, status, exit_code,
                   frame, uncaught>>

blank ==
    /\ IF current_mode = INTENSITY
       THEN blanking_intensities' = Array(liveview_line.y)
       ELSE UNCHANGED blanking_intensities
    /\ UNCHANGED <<integ_window, spectrometer_integ, current_mode,
                   peakfinder_enabled, data, ylim, ylabel, liveview_line,
                   blanking_line, peakfind_line, sigint, status, exit_code,
                   frame, uncaught>>

\* clear_blank() without its test of the mode.
clear_blank_any_mode ==
    /\ blanking_intensities' = None
    /\ UNCHANGED <<integ_window, spectrometer_integ, current_mode,
                   peakfinder_enabled, data, ylim, ylabel, liveview_line,
                   blanking_line, peakfind_line, sigint, status, exit_code,
                   frame, uncaught>>

clear_blank ==
    /\ IF current_mode = INTENSITY
       THEN blanking_intensities' = None
       ELSE UNCHANGED blanking_intensities
    /\ UNCHANGED <<integ_window, spectrometer_integ, current_mode,
                   peakfinder_enabled, data, ylim, ylabel, liveview_line,
                   blanking_line, peakfind_line, sigint, status, exit_code,
                   frame, uncaught>>

increase_y_range ==
    LET y_min == ylim[1]
        y_max == ylim[2]
        y_max_new == y_max + YRANGE_PARAM[current_mode].step
    IN  /\ y_max < YRANGE_PARAM[current_mode].default
                     + MaxYSteps * YRANGE_PARAM[current_mode].step
        /\ ylim' = <<y_min, y_max_new>>
        /\ UNCHANGED <<integ_window, spectrometer_integ, blanking_intensities,
                       current_mode, peakfinder_enabled, data, ylabel,
                       liveview_line, blanking_line, peakfind_line, sigint,
                       status, exit_code, frame, uncaught>>

\* decrease_y_range() without the max() of line 212.
decrease_y_range_unclamped ==
    LET y_min == ylim[1]
        y_max == ylim[2]
        step == YRANGE_PARAM[current_mode].step
        y_max_new == y_max - step
    IN  /\ ylim' = <<y_min, y_max_new>>
        /\ UNCHANGED <<integ_window, spectrometer_integ, blanking_intensities,
                       current_mode, peakfinder_enabled, data, ylabel,
                       liveview_line, blanking_line, peakfind_line, sigint,
                       status, exit_code, frame, uncaught>>

decrease_y_range ==
    LET y_min == ylim[1]
        y_max == ylim[2]
        step == YRANGE_PARAM[current_mode].step
        minval == YRANGE_PARAM[current_mode].min
        y_max_new == Max(y_max - step, minval)
    IN  /\ ylim' = <<y_min, y_max_new>>
        /\ UNCHANGED <<integ_window, spectrometer_integ, blanking_intensities,
                       current_mode, peakfinder_enabled, data, ylabel,
                       liveview_line, blanking_line, peakfind_line, sigint,
                       status, exit_code, frame, uncaught>>

\* reset_y_axis() once current_mode has become m.
reset_y_axis(m) ==
    /\ ylim' = <<0, YRANGE_PARAM[m].default>>
    /\ ylabel' = MODE_TO_YLABEL[m]

\* set_mode_to_intensity() that also drops the baseline.
set_mode_to_intensity_clears ==
    /\ current_mode' = INTENSITY
    /\ reset_y_axis(INTENSITY)
    /\ blanking_intensities' = None
    /\ UNCHANGED <<integ_window, spectrometer_integ, peakfinder_enabled,
                   data, liveview_line, blanking_line, peakfind_line, sigint,
                   status, exit_code, frame, uncaught>>

set_mode_to_intensity ==
    /\ current_mode' = INTENSITY
    /\ reset_y_axis(INTENSITY)
    /\ UNCHANGED <<integ_window, spectrometer_integ, blanking_intensities,
                   peakfinder_enabled, data, liveview_line, blanking_line,
                   peakfind_line, sigint, status, exit_code, frame, uncaught>>

\* set_mode_to_transmittance() without its test of the baseline.
set_mode_to_transmittance_unguarded ==
    /\ current_mode' = TRANSMITTANCE
    /\ reset_y_axis(TRANSMITTANCE)
    /\ UNCHANGED <<integ_window, spectrometer_integ, blanking_intensities,
                   peakfinder_enabled, data, liveview_line, blanking_line,
                   peakfind_line, sigint, status, exit_code, frame, uncaught>>

set_mode_to_transmittance ==
    /\ IF blanking_intensities = None
       THEN UNCHANGED <<current_mode, ylim, ylabel>>
       ELSE /\ current_mode' = TRANSMITTANCE
            /\ reset_y_axis(TRANSMITTANCE)
    /\ UNCHANGED <<integ_window, spectrometer_integ, blanking_intensities,
                   peakfinder_enabled, data, liveview_line, blanking_line,
                   peakfind_line, sigint, status, exit_code, frame, uncaught>>

set_mode_to_absorbance ==
    /\ IF blanking_intensities = None
       THEN UNCHANGED <<current_mode, ylim, ylabel>>
       ELSE /\ current_mode' = ABSORBANCE
            /\ reset_y_axis(ABSORBANCE)
    /\ UNCHANGED <<integ_window, spectrometer_integ, blanking_intensities,
                   peakfinder_enabled, data, liveview_line, blanking_line,
                   peakfind_line, sigint, status, exit_code, frame, uncaught>>

toggle_peakfinder ==
    /\ peakfinder_enabled' = ~peakfinder_enabled
    /\ UNCHANGED <<integ_window, spectrometer_integ, blanking_intensities,
                   current_mode, data, ylim, ylabel, liveview_line,
                   blanking_line, peakfind_line, sigint, status, exit_code,
                   frame, uncaught>>

print_help == UNCHANGED vars

increase_integ_window ==
    /\ integ_window < INTEG_TIME_PARAM.min
                        + MaxIntegSteps * INTEG_TIME_PARAM.step
    /\ integ_window' = integ_window + INTEG_TIME_PARAM.step
    /\ spectrometer_integ' = integ_window'
    /\ UNCHANGED <<blanking_intensities, current_mode, peakfinder_enabled,
                   data, ylim, ylabel, liveview_line, blanking_line,
                   peakfind_line, sigint, status, exit_code, frame, uncaught>>

\* decrease_integ_window() without the max() of line 291.
decrease_integ_window_unclamped ==
    /\ integ_window' = integ_window - INTEG_TIME_PARAM.step
    /\ spectrometer_integ' = integ_window'
    /\ UNCHANGED <<blanking_intensities, current_mode, peakfinder_enabled,
                   data, ylim, ylabel, liveview_line, blanking_line,
                   peakfind_line, sigint, status, exit_code, frame, uncaught>>

decrease_integ_window ==
    /\ integ_window' = Max(integ_window - INTEG_TIME_PARAM.step,
                           INTEG_TIME_PARAM.min)
    /\ spectrometer_integ' = integ_window'
    /\ UNCHANGED <<blanking_intensities, current_mode, peakfinder_enabled,
                   data, ylim, ylabel, liveview_line, blanking_line,
                   peakfind_line, sigint, status, exit_code, frame, uncaught>>

\* on_key_press() with the keys of the help message, '<' and '>', bound to
\* the integration window.
on_key_press_doc_keys(key) ==
    /\ status = "running"
    /\ \/ key = "<" /\ increase_integ_window
       \/ key = ">" /\ decrease_integ_window
       \/ key \notin {"<", ">"} /\ UNCHANGED vars

\* on_key_press(event): the callback of event.key, or nothing on KeyError.
on_key_press(key) ==
    /\ status = "running"
    /\ \/ key = "s" /\ save
       \/ key = "f" /\ save_figure
       \/ key = "b" /\ blank
       \/ key = "c" /\ clear_blank
       \/ key = "up" /\ increase_y_range
       \/ key = "down" /\ decrease_y_range
       \/ key = "i" /\ set_mode_to_intensity
       \/ key = "t" /\ set_mode_to_transmittance
       \/ key = "a" /\ set_mode_to_absorbance
       \/ key = "p" /\ toggle_peakfinder
       \/ key = "." /\ increase_integ_window
       \/ key = "," /\ decrease_integ_window
       \/ key = "h" /\ print_help
       \/ key \in UnboundKeys /\ UNCHANGED vars

\* ------------------------------------------------------------------------
\* The update cycle
\* ------------------------------------------------------------------------

\* Lines 303-312: the entries every cycle stores first.
BaseData(intensities) ==
    [mode |-> Lower(MODE_TO_YLABEL[current_mode]),
     wavelengths |-> Wavelengths,
     intensities |-> intensities,
     maximum_intensity |-> find_peak(Wavelengths, intensities, "max")]

\* Lines 320-326: the entries stored when a baseline is present.
BlankData(intensities, b) ==
    LET mask == MaskOf(b)
        transmittance == Transmittance(intensities, b, mask)
        absorbance == Absorbance(transmittance)
        wavelengths_masked == BoolIndex(Wavelengths, mask)
    IN  [mask |-> mask,
         tramsmittance |-> transmittance,
         absorbance |-> absorbance,
         wavelengths_masked |-> wavelengths_masked,
         minimum_transmittance |->
             find_peak(wavelengths_masked, transmittance, "min"),
         maximum_absorbance |->
             find_peak(wavelengths_masked, absorbance, "max"),
         blanking_intensities |-> b]

\* The exception update() raises for these intensities, or "none".
\*   IndexError: the boolean mask of line 314 has not the length of the
\*     intensities it indexes on line 315;
\*   ValueError: argmin of an empty transmittance on line 318;
\*   UnboundLocalError: mask is read on line 340/344 without a baseline.
UpdateError(intensities) ==
    IF blanking_intensities = None
    THEN IF current_mode = INTENSITY THEN "none" ELSE "UnboundLocalError"
    ELSE LET b == blanking_intensities.val
         IN  IF Len(b) # Len(intensities)
             THEN "IndexError"
             ELSE IF \A i \in 1..Len(b) :
                         ~GreaterThan(b[i], INTENSITY_THRESHOLD)
                  THEN "ValueError"
                  ELSE "none"

\* Lines 303-358 for one array read from the spectrometer.
UpdateFrame(intensities) ==
    LET err == UpdateError(intensities)
        has_blank == blanking_intensities # None
        b == blanking_intensities.val
        base == BaseData(intensities)
        full == IF has_blank /\ err = "none"
                THEN base @@ BlankData(intensities, b)
                ELSE base
        liveview ==
            CASE current_mode = INTENSITY ->
                    [x |-> Wavelengths, y |-> intensities]
              [] current_mode = TRANSMITTANCE ->
                    [x |-> full.wavelengths_masked, y |-> full.tramsmittance]
              [] current_mode = ABSORBANCE ->
                    [x |-> full.wavelengths_masked, y |-> full.absorbance]
        blanking ==
            IF current_mode = INTENSITY /\ has_blank
            THEN [x |-> Wavelengths, y |-> b]
            ELSE EmptyLine
        peak ==
            CASE current_mode = INTENSITY -> full.maximum_intensity
              [] current_mode = TRANSMITTANCE -> full.minimum_transmittance
              [] current_mode = ABSORBANCE -> full.maximum_absorbance
        peakfind ==
            IF peakfinder_enabled
            THEN [x |-> <<peak[1], peak[1]>>,
                  y |-> <<Int2Val(0), Times1_1(peak[2])>>]
            ELSE EmptyLine
    IN  /\ frame' = frame + 1
        /\ data' = full
        /\ IF err = "none"
           THEN /\ liveview_line' = liveview
                /\ blanking_line' = blanking
                /\ peakfind_line' = peakfind
                /\ UNCHANGED uncaught
           ELSE /\ uncaught' = err
                /\ UNCHANGED <<liveview_line, blanking_line, peakfind_line>>
        /\ UNCHANGED <<integ_window, spectrometer_integ, blanking_intensities,
                       current_mode, peakfinder_enabled, ylim, ylabel, sigint,
                       status, exit_code>>

\* update() that empties self.data (line 303) before it tests the flag.
update_late_check ==
    /\ status = "running"
    /\ IF sigint
       THEN /\ status' = "exited"
            /\ exit_code' = <<0>>
            /\ data' = EmptyDict
            /\ UNCHANGED <<integ_window, spectrometer_integ,
                           blanking_intensities, current_mode,
                           peakfinder_enabled, ylim, ylabel, liveview_line,
                           blanking_line, peakfind_line, sigint, frame,
                           uncaught>>
       ELSE /\ frame < MaxFrames
            /\ \E intensities \in Readings : UpdateFrame(intensities)

\* update() that reports the interrupt but does not call exit.
update_no_exit ==
    /\ status = "running"
    /\ IF sigint
       THEN UNCHANGED vars
       ELSE /\ frame < MaxFrames
            /\ \E intensities \in Readings : UpdateFrame(intensities)

\* update(frame): exit(0) when the interrupt flag is set, a frame otherwise.
update ==
    /\ status = "running"
    /\ IF sigint
       THEN /\ status' = "exited"
            /\ exit_code' = <<0>>
            /\ UNCHANGED <<session, sigint, frame, uncaught>>
       ELSE /\ frame < MaxFrames
            /\ \E intensities \in Readings : UpdateFrame(intensities)

\* sigint_handler(signum, frame)
sigint_handler ==
    /\ status = "running"
    /\ sigint' = TRUE
    /\ UNCHANGED <<session, status, exit_code, frame, uncaught>>

\* run(): plt.show() returns once the figure is closed (the 'q' of the
\* help message), and main() ends.
quit ==
    /\ status = "running"
    /\ status' = "exited"
    /\ exit_code' = <<0>>
    /\ UNCHANGED <<session, sigint, frame, uncaught>>

Next ==
    \/ \E key \in EventKeys : on_key_press(key)
    \/ update
    \/ sigint_handler
    \/ quit

Spec == Init /\ [][Next]_vars

\* The animation keeps calling update while the figure is open.  Only the
\* calls that find the interrupt flag set are required to happen: with the
\* flag set for good, weak fairness of update implies this condition.
FairSpec == Spec /\ WF_vars(sigint /\ update)

\* ------------------------------------------------------------------------
\* Properties
\* ------------------------------------------------------------------------

\* Some element of the baseline array b exceeds the threshold.
AnyAboveThreshold(b) ==
    \E i \in 1..Len(b) : GreaterThan(b[i], INTENSITY_THRESHOLD)

\* C1: 't' or 'a' pressed while the baseline is None leaves current_mode
\* unchanged; 'i' always results in current_mode = INTENSITY.
C1_ModeSwitchGuard ==
    [][/\ (on_key_press("t") \/ on_key_press("a"))
              /\ blanking_intensities = None
          => current_mode' = current_mode
       /\ on_key_press("i") => current_mode' = INTENSITY]_vars

\* A baseline was in use at the last cycle, the mode went back to intensity
\* and the baseline has been cleared since: 't' and 'a' are refused here.
C1_Witness ==
    /\ status = "running"
    /\ current_mode = INTENSITY
    /\ blanking_intensities = None
    /\ "blanking_intensities" \in DOMAIN data
    /\ data.mode = "absorbance"

\* C2: in every reachable state, a transmittance or absorbance mode comes
\* with a baseline that is not None, and no cycle has read the mask without
\* one.
C2_ModeImpliesBaseline ==
    /\ current_mode \in {TRANSMITTANCE, ABSORBANCE}
           => blanking_intensities # None
    /\ uncaught # "UnboundLocalError"

\* A cycle has completed in transmittance mode.
C2_Witness ==
    /\ current_mode = TRANSMITTANCE
    /\ "mask" \in DOMAIN data
    /\ data.mode = "transmittance"
    /\ liveview_line.y = data.tramsmittance

\* C3 (as claimed, for runs in which a cycle has run and none has raised):
\* a 'b' pressed in intensity mode stores the intensities read by the most
\* recent update cycle.
C3_BlankStoresLastIntensities ==
    [][on_key_press("b") /\ current_mode = INTENSITY
           /\ frame > 0 /\ uncaught = "none"
       => blanking_intensities' = Array(data.intensities)]_vars

\* C4 (as claimed): the baseline is None or has one entry per wavelength.
C4_BaselineLength ==
    blanking_intensities = None \/ Len(blanking_intensities.val) = N

\* C5: an acquired baseline is left unchanged by every update cycle and by
\* every key other than 'b' and 'c'.
C5_BaselinePersists ==
    [][/\ blanking_intensities # None
       /\ \/ update
          \/ \E key \in EventKeys \ {"b", "c"} : on_key_press(key)
       => blanking_intensities' = blanking_intensities]_vars

\* The baseline acquired in intensity mode is the one a later cycle, run
\* after a mode switch and a peak-finder toggle, has worked with.
C5_Witness ==
    /\ blanking_intensities # None
    /\ current_mode = ABSORBANCE
    /\ peakfinder_enabled
    /\ "blanking_intensities" \in DOMAIN data
    /\ data.mode = "absorbance"
    /\ data.blanking_intensities = blanking_intensities.val
    /\ peakfind_line # EmptyLine

\* C6: the interrupt flag, once set, stays set; an update cycle that finds
\* it set exits with code 0 without reading the spectrometer and without
\* touching the data mapping, the baseline, the mode or a plotted line.
C6_InterruptExit ==
    [][/\ sigint => sigint'
       /\ sigint /\ update
          => /\ status' = "exited"
             /\ exit_code' = <<0>>
             /\ UNCHANGED <<data, blanking_intensities, current_mode,
                            liveview_line, blanking_line, peakfind_line,
                            frame, uncaught>>]_vars

\* Exited on an interrupt, with the results of the last cycle still in place.
C6_Witness ==
    /\ sigint
    /\ status = "exited"
    /\ exit_code = <<0>>
    /\ frame > 0
    /\ "intensities" \in DOMAIN data
    /\ liveview_line.y = data.intensities

\* C7: with update cycles kept scheduled (FairSpec), an interrupt leads to
\* the exited state with exit code 0.
C7_InterruptLeadsToExit ==
    sigint ~> (status = "exited" /\ exit_code = <<0>>)

\* Exited after an interrupt that arrived in transmittance mode, between
\* key presses.
C7_Witness ==
    /\ sigint
    /\ status = "exited"
    /\ exit_code = <<0>>
    /\ current_mode = TRANSMITTANCE
    /\ peakfinder_enabled

C9_EmptyMaskCompletes ==
    [][/\ update
       /\ ~sigint
       /\ blanking_intensities # None
       /\ Len(blanking_intensities.val) = N
       /\ ~AnyAboveThreshold(blanking_intensities.val)
       => /\ uncaught' = uncaught
          /\ "tramsmittance" \in DOMAIN data'
          /\ data'.tramsmittance = <<>>
          /\ data'.absorbance = <<>>]_vars

\* C10 (as claimed): no update cycle and no key handler raises, and the
\* process only stops with exit code 0.
C10_NoFatalCondition ==
    /\ uncaught = "none"
    /\ status = "exited" => exit_code = <<0>>

\* C11: the intensity peak a cycle stores is (W[k], I[k]) for the smallest
\* index k at which the intensities I it read are largest.
C11_IntensityPeak ==
    "intensities" \in DOMAIN data =>
        \E k \in 1..N :
            /\ data.maximum_intensity = <<Wavelengths[k], data.intensities[k]>>
            /\ \A j \in 1..N : data.intensities[j].n <= data.intensities[k].n
            /\ \A j \in 1..(k - 1) :
                   data.intensities[j].n < data.intensities[k].n

\* A cycle has read a tie of two largest intensities and stored the first.
C11_Witness ==
    /\ "intensities" \in DOMAIN data
    /\ data.intensities = <<Int2Val(3), Int2Val(3)>>
    /\ data.maximum_intensity = <<Wavelengths[1], Int2Val(3)>>

\* v > 1, for a baseline element v.
AboveOne(v) ==
    \/ v.k = "q" /\ v.n > v.d
    \/ v.k = "nlog" /\ 10 * v.n < v.d

\* The indices of the baseline b a frame keeps, and the k-th of them.
SelectedIndices(b) == {i \in 1..Len(b) : AboveOne(b[i])}

KthSelected(b, k) ==
    CHOOSE i \in SelectedIndices(b) :
        Cardinality({j \in SelectedIndices(b) : j < i}) = k - 1

\* t = i / b for a count i and a finite baseline element b.
IsQuotient(t, i, b) ==
    /\ t.k = "q" /\ i.k = "q" /\ b.k = "q"
    /\ t.n * b.n * i.d = i.n * b.d * t.d

\* C12: the masked series a cycle stores have one entry for exactly the
\* indices i with B[i] > 1, in wavelength order: mask[i] is B[i] > 1, the
\* k-th masked wavelength is the wavelength of the k-th such index and the
\* k-th transmittance is I[i] / B[i] there.
C12_Masking ==
    "mask" \in DOMAIN data =>
        LET b == data.blanking_intensities
            sel == SelectedIndices(b)
        IN  /\ Len(data.mask) = N
            /\ \A i \in 1..N : data.mask[i] <=> i \in sel
            /\ Len(data.tramsmittance) = Cardinality(sel)
            /\ Len(data.wavelengths_masked) = Cardinality(sel)
            /\ \A k \in 1..Cardinality(sel) :
                   /\ data.wavelengths_masked[k] =
                          Wavelengths[KthSelected(b, k)]
                   /\ IsQuotient(data.tramsmittance[k],
                                 data.intensities[KthSelected(b, k)],
                                 b[KthSelected(b, k)])

\* A baseline with an element equal to the threshold: that index is left
\* out and the series have one entry, for the second wavelength.
C12_Witness ==
    /\ "mask" \in DOMAIN data
    /\ data.blanking_intensities = <<Int2Val(1), Int2Val(3)>>
    /\ data.intensities = <<Int2Val(3), Int2Val(1)>>
    /\ data.mask = <<FALSE, TRUE>>
    /\ data.wavelengths_masked = <<Wavelengths[2]>>
    /\ data.tramsmittance = <<Q(1, 3)>>

\* p is (x[k], y[k]) for the first index k at which y is smallest.
IsFirstMinimum(p, x, y) ==
    \E k \in 1..Len(y) :
        /\ p = <<x[k], y[k]>>
        /\ \A j \in 1..Len(y) : LE(y[k], y[j])
        /\ \A j \in 1..(k - 1) : ~LE(y[j], y[k])

\* p is (x[k], y[k]) for the first index k at which y is largest.
IsFirstMaximum(p, x, y) ==
    \E k \in 1..Len(y) :
        /\ p = <<x[k], y[k]>>
        /\ \A j \in 1..Len(y) : LE(y[j], y[k])
        /\ \A j \in 1..(k - 1) : ~LE(y[k], y[j])

\* The step is an update cycle that ran to its end.
CompletedCycle ==
    /\ update
    /\ ~sigint
    /\ IF blanking_intensities = None
       THEN current_mode = INTENSITY
       ELSE "mask" \in DOMAIN data'

\* The peak of the cycle whose results are d, l (displayed line) and
\* pl (peak marker) is the extremum of the mode m and lies on l.
PeakOfMode(m, d, l, pl, enabled) ==
    LET p == CASE m = INTENSITY -> d.maximum_intensity
               [] m = TRANSMITTANCE -> d.minimum_transmittance
               [] m = ABSORBANCE -> d.maximum_absorbance
    IN  /\ CASE m = INTENSITY ->
                   /\ IsFirstMaximum(p, Wavelengths, d.intensities)
                   /\ l = [x |-> Wavelengths, y |-> d.intensities]
              [] m = TRANSMITTANCE ->
                   /\ IsFirstMinimum(p, d.wavelengths_masked, d.tramsmittance)
                   /\ l = [x |-> d.wavelengths_masked, y |-> d.tramsmittance]
              [] m = ABSORBANCE ->
                   /\ IsFirstMaximum(p, d.wavelengths_masked, d.absorbance)
                   /\ l = [x |-> d.wavelengths_masked, y |-> d.absorbance]
        /\ \E k \in 1..Len(l.x) : l.x[k] = p[1]
        /\ enabled => pl.x = <<p[1], p[1]>>

\* C13: a cycle that runs to its end in transmittance mode takes as peak the
\* first minimum of the masked transmittance, in absorbance mode the first
\* maximum of the masked absorbance, in intensity mode the first maximum of
\* the intensities; the peak wavelength is on the displayed x-series and is
\* where the peak marker is drawn.
C13_ModeExtremum ==
    [][CompletedCycle =>
           PeakOfMode(current_mode, data', liveview_line', peakfind_line',
                      peakfinder_enabled)]_vars

\* A transmittance cycle whose minimum is not its maximum: the marker is at
\* the second wavelength, where the transmittance is smallest.
C13_Witness ==
    /\ "mask" \in DOMAIN data
    /\ data.mode = "transmittance"
    /\ data.tramsmittance = <<Q(1, 1), Q(1, 3)>>
    /\ data.minimum_transmittance = <<Wavelengths[2], Q(1, 3)>>
    /\ liveview_line.x = Wavelengths
    /\ peakfind_line # EmptyLine
    /\ peakfind_line.x = <<Wavelengths[2], Wavelengths[2]>>

\* C14: every key of the help message other than 'q' has a callback, and
\* while the program runs a press of '<' can raise the integration window
\* by one step and a press of '>' lowers it by one step when it is above
\* the minimum.
C14_HelpDispatchAgreement ==
    /\ DocKeys \ {"q"} \subseteq CallbackKeys
    /\ status = "running" =>
           /\ integ_window < INTEG_TIME_PARAM.min
                                + MaxIntegSteps * INTEG_TIME_PARAM.step =>
                  ENABLED (/\ on_key_press("<")
                           /\ integ_window' =
                                  integ_window + INTEG_TIME_PARAM.step)
           /\ integ_window > INTEG_TIME_PARAM.min =>
                  ENABLED (/\ on_key_press(">")
                           /\ integ_window' =
                                  integ_window - INTEG_TIME_PARAM.step)

\* C15 as stated: no step other than a press of 'b' changes the baseline.
C15_SingleWriter ==
    [][blanking_intensities' # blanking_intensities =>
           on_key_press("b")]_vars

\* C15: no step other than a press of 'b' (acquire) or of 'c' (clear)
\* changes the baseline; every other action and every update cycle leaves
\* its value as it was.
C15_TwoWriters ==
    [][blanking_intensities' # blanking_intensities =>
           on_key_press("b") \/ on_key_press("c")]_vars

\* The baseline a cycle has used and drawn in intensity mode has since been
\* cleared by 'c'.
C15_Witness ==
    /\ blanking_intensities = None
    /\ current_mode = INTENSITY
    /\ "blanking_intensities" \in DOMAIN data
    /\ data.mode = "intensity"
    /\ blanking_line # EmptyLine
    /\ blanking_line.y = data.blanking_intensities

\* C16: in transmittance or absorbance mode a press of 'b' or of 'c' changes
\* nothing, neither the baseline nor the mode nor any other state; in
\* intensity mode a press of 'c' leaves the baseline None.
C16_BlankRefusedOutsideIntensity ==
    [][/\ (/\ current_mode \in {TRANSMITTANCE, ABSORBANCE}
           /\ on_key_press("b") \/ on_key_press("c")) => UNCHANGED vars
       /\ (current_mode = INTENSITY /\ on_key_press("c")) =>
              blanking_intensities' = None]_vars

\* Transmittance mode with a displayed series that is not the baseline: a
\* press of 'b' that were not refused would replace the baseline.
C16_Witness ==
    /\ status = "running"
    /\ current_mode = TRANSMITTANCE
    /\ blanking_intensities # None
    /\ "mask" \in DOMAIN data
    /\ liveview_line.y = data.tramsmittance
    /\ blanking_intensities.val # liveview_line.y

\* C17: the integration window is 3000 + 1000 * k for an integer k >= 0, so
\* never below 3000; the value last sent to the spectrometer is the
\* integration window; and at 3000 no press of ',' takes it off 3000.
C17_IntegWindow ==
    /\ INTEG_TIME_PARAM.min = 3000
    /\ INTEG_TIME_PARAM.step = 1000
    /\ integ_window >= 3000
    /\ (integ_window - 3000) % 1000 = 0
    /\ spectrometer_integ = integ_window
    /\ (status = "running" /\ integ_window = 3000) =>
           /\ ENABLED on_key_press(",")
           /\ ~ENABLED (on_key_press(",") /\ integ_window' # 3000)

\* The window has been decreased from its default of 4000 to the minimum,
\* and the spectrometer was told.
C17_Witness ==
    /\ status = "running"
    /\ integ_window = INTEG_TIME_PARAM.min
    /\ integ_window < INTEG_TIME_PARAM.default
    /\ spectrometer_integ = INTEG_TIME_PARAM.min

\* The key that asks for the mode m.
ModeKey(m) ==
    CASE m = INTENSITY -> "i"
      [] m = TRANSMITTANCE -> "t"
      [] m = ABSORBANCE -> "a"

\* A request for the mode m is accepted: always for intensity, with a
\* baseline for the two others.
Accepted(m) == m = INTENSITY \/ blanking_intensities # None

\* C18: the lower y limit is 0 and the upper one is at least the minimum of
\* the current mode (limits are counted in tenths: 5000 for intensity, 1 for
\* transmittance and absorbance) in every state; an accepted mode switch,
\* also to the mode already active, sets the limits to (0, default of the
\* new mode); a rejected one leaves limits, label and mode as they were.
C18_YRange ==
    /\ [](/\ ylim[1] = 0
          /\ ylim[2] >= YRANGE_PARAM[current_mode].min
          /\ YRANGE_PARAM[INTENSITY].min = 5000
          /\ YRANGE_PARAM[TRANSMITTANCE].min = 1
          /\ YRANGE_PARAM[ABSORBANCE].min = 1)
    /\ [][\A m \in Mode :
              on_key_press(ModeKey(m)) =>
                  IF Accepted(m)
                  THEN /\ current_mode' = m
                       /\ ylim' = <<0, YRANGE_PARAM[m].default>>
                  ELSE UNCHANGED <<ylim, ylabel, current_mode>>]_vars

\* Transmittance mode with the range decreased from its default down to the
\* minimum of the mode.
C18_Witness ==
    /\ status = "running"
    /\ current_mode = TRANSMITTANCE
    /\ ylabel = MODE_TO_YLABEL[TRANSMITTANCE]
    /\ ylim = <<0, YRANGE_PARAM[TRANSMITTANCE].min>>
    /\ ylim[2] < YRANGE_PARAM[TRANSMITTANCE].default

\* C19: after a cycle that ran to its end the data mapping holds the keys
\* mask, transmittance, absorbance, wavelengths_masked,
\* minimum_transmittance, maximum_absorbance and blanking_intensities if the
\* cycle had a baseline and none of them if it had not, and its mode entry
\* is the mode of that cycle.
C19_DataRebuilt ==
    [][CompletedCycle =>
           LET derived == {"mask", "transmittance", "absorbance",
                           "wavelengths_masked", "minimum_transmittance",
                           "maximum_absorbance", "blanking_intensities"}
           IN  /\ IF blanking_intensities # None
                  THEN derived \subseteq DOMAIN data'
                  ELSE derived \cap DOMAIN data' = {}
               /\ data'.mode = Lower(MODE_TO_YLABEL[current_mode])]_vars

====
